---- MODULE Spec2Model ----
(***************************************************************************)
(* Offline-aware landmark cache of LandmarkLocator:                        *)
(*   src/cache_manager.py  OfflineCacheManager (_cache_image,              *)
(*                         cache_landmarks, get_cached_landmarks,          *)
(*                         clear_old_cache, get_cache_stats) and the       *)
(*                         module-level get_landmarks wrapper              *)
(*   src/main.py           get_landmarks (the offline-mode aware variant)  *)
(*                                                                         *)
(* Units.  Time is counted in hours.  A coordinate is an integer number of *)
(* thirds of 0.001 degree, so round(b, 3) is rounding to the nearest       *)
(* multiple of 3; no value lies exactly half way between two multiples,    *)
(* as no binary float lies exactly half way between two 3-decimal numbers. *)
(***************************************************************************)
EXTENDS Integers, Sequences, FiniteSets, TLC

VARIABLES
    now,            \* time.time(), in hours
    landmarks_dir,  \* .cache/landmarks : file name -> JSON content
    images_dir,     \* .cache/images    : file name -> file
    cache_stats,    \* st.session_state.cache_stats
    last,           \* the call that ended last: arguments, result, effects
    prev,           \* the call right before it, when `last` continues it
    disk_file,      \* what the file two sessions write at the same time holds
    sessions        \* where each of the two sessions is in its cache_landmarks

\* the part of the state only concurrent sessions change
race == <<disk_file, sessions>>

vars == <<now, landmarks_dir, images_dir, cache_stats, last, prev, disk_file, sessions>>

-----------------------------------------------------------------------------
(* Bounds of the model *)

MaxNow == 25        \* the clock stops here
MaxRecords == 2     \* landmark files held at once

(* Program constants *)

DefaultMaxAgeHours == 24    \* max_age_hours: int = 24
MinFetchZoom == 8           \* if zoom_level >= 8

(* Inputs *)

TickSteps == {25}
MaxAges == {24, 25, 26}
Zooms == {7, 8}
DataSources == {"Wikipedia", "Google Places"}
Languages == {"en", "fr", "en_US"}

B1 == <<0, 0, 3000, 3000>>              \* (0, 0, 1, 1)
B1near == <<301, 301, 3301, 3301>>      \* (0.1003.., ...): near B1, off the grid
B1off == <<1, 0, 3000, 3000>>           \* rounds to B1
B1wide == <<0, 0, 3000, 6000>>          \* (0, 0, 1, 2): B1 with another east
B2 == <<15000, 15000, 18000, 18000>>    \* (5, 5, 6, 6): far from B1
B1neg == <<-1, 0, 3000, 3000>>          \* (-0.0003.., 0, 1, 1): rounds to B1

ValidUrl == "https://img/a.jpg"
BadUrl == "ftp://img/b.exe"
Urls == {ValidUrl, BadUrl}

Bridge == [title |-> "Bridge", image_url |-> ValidUrl]
Island == [title |-> "Island", image_url |-> ""]
Street == [title |-> "Street"]
Tower == [title |-> "Tower", image_url |-> ""]
Pont == [title |-> "Pont", image_url |-> ""]
Mall == [title |-> "Mall", image_url |-> ""]

\* what a fetch source finds for (language, bounds): the landmarks in the bounds
Found ==
    {<<"en", B1, <<Bridge>>>>,
     <<"en", B1off, <<Island, Bridge>>>>,
     <<"en", B1wide, <<Tower>>>>,
     <<"en", B2, <<Street>>>>,
     <<"fr", B1, <<Pont>>>>,
     <<"en_US", B1, <<Mall>>>>}

\* the (language, bounds) pairs asked for
Requests == {<<f[1], f[2]>> : f \in Found}
GetRequests == Requests \cup {<<"en", B1near>>}
WrapperRequests == {<<"en", B1>>, <<"en", B1wide>>}

\* what requests.get and the bytes it brings can be
Responses == {"200_image", "200_garbage", "404", "timeout"}

\* the same, or a 200 response whose bytes the disk does not take: f.write raises
ResponsesOnFaultyDisk == Responses \cup {"200_write_error"}

\* image_validator.validate_image_url: protocol / extension allow-list
validate_image_url(image_url) == image_url = ValidUrl

\* hashlib.md5(url).hexdigest() + ".jpg" under images_dir
ImagePath(image_url) ==
    CASE image_url = ValidUrl -> "/.cache/images/md5a.jpg"
      [] image_url = BadUrl -> "/.cache/images/md5b.jpg"

-----------------------------------------------------------------------------
(* File names of landmark records *)

Word(w) == [isnum |-> FALSE, word |-> w, num |-> 0]
Num(n) == [isnum |-> TRUE, word |-> "", num |-> n]

\* language.split('_')
SplitLanguage(language) ==
    CASE language = "en" -> <<"en">>
      [] language = "fr" -> <<"fr">>
      [] language = "en_US" -> <<"en", "US">>

\* round(b, 3)
Round3(b) == 3 * ((b + 1) \div 3)

\* str(round(b, 3)): a negative b that rounds to zero gives -0.0, whose string
\* is "-0.0" and not "0.0"; float("-0.0") is zero
StrRound3(b) ==
    IF b < 0 /\ Round3(b) = 0
    THEN [isnum |-> TRUE, word |-> "-0.0", num |-> 0]
    ELSE Num(Round3(b))

\* f"landmarks_{language}_" + "_".join(str(round(b, 3)) for b in bounds) + ".json",
\* as the list of its '_'-separated pieces; the last piece carries ".json"
CacheFile(language, bounds) ==
    <<Word("landmarks")>>
      \o [i \in 1..Len(SplitLanguage(language)) |-> Word(SplitLanguage(language)[i])]
      \o [i \in 1..4 |-> StrRound3(bounds[i])]

\* cache_file.startswith(f'landmarks_{language}_')
StartsWith(cache_file, language) ==
    LET prefix == <<Word("landmarks")>>
            \o [i \in 1..Len(SplitLanguage(language)) |-> Word(SplitLanguage(language)[i])]
    IN  /\ Len(cache_file) > Len(prefix)
        /\ SubSeq(cache_file, 1, Len(prefix)) = prefix

\* cache_file.split('_')[2:-1]
BoundsPieces(cache_file) == SubSeq(cache_file, 3, Len(cache_file) - 1)

\* float(x) raises ValueError
FloatRaises(pieces) == \E i \in 1..Len(pieces) : ~pieces[i].isnum

Min(a, b) == IF a < b THEN a ELSE b

RECURSIVE SumSq(_, _, _)
SumSq(bounds, cached_bounds, n) ==
    IF n = 0 THEN 0
    ELSE (bounds[n] - cached_bounds[n].num) * (bounds[n] - cached_bounds[n].num)
         + SumSq(bounds, cached_bounds, n - 1)

\* sum((a - b) ** 2 for a, b in zip(bounds, cached_bounds))
Distance(bounds, cached_bounds) ==
    SumSq(bounds, cached_bounds, Min(Len(bounds), Len(cached_bounds)))

-----------------------------------------------------------------------------
(* OfflineCacheManager._cache_image *)

\* image_validator.validate_image_file: the file decodes as an image
validate_image_file(file) == file.image

\* requests.get answered with status 200: open(filename, 'wb') and f.write
WritesFile(response) == response \in {"200_image", "200_garbage", "200_write_error"}

\* the file lines 72-73 leave at filename: the image, bytes that are no image,
\* or the part written when f.write raised (disk full)
WrittenFile(response, t) == [image |-> response = "200_image", mtime |-> t]

\* requests.get raised, or f.write did
RaisesInTry(response) == response \in {"timeout", "200_write_error"}

\* _cache_image without lines 56-67: an existing file is never reused
CacheImageNoReuse(images, image_url, response, t) ==
    LET filename == ImagePath(image_url)
        written == WrittenFile(response, t)
    IN  IF ~validate_image_url(image_url)
        THEN [images |-> images, path |-> "", downloads |-> 0, raised |-> FALSE]
        ELSE IF response \in {"200_image", "200_garbage"}
        THEN IF validate_image_file(written)
             THEN [images |-> (filename :> written) @@ images,
                   path |-> filename, downloads |-> 1, raised |-> FALSE]
             ELSE [images |-> [f \in DOMAIN images \ {filename} |-> images[f]],
                   path |-> "", downloads |-> 1, raised |-> FALSE]
        ELSE [images |-> images, path |-> "", downloads |-> 1, raised |-> FALSE]

\* _cache_image as it would be if an existing file that fails validation ended
\* the call: no download, the file stays
CacheImageNoHeal(images, image_url, response, t) ==
    LET filename == ImagePath(image_url)
        written == WrittenFile(response, t)
    IN  IF ~validate_image_url(image_url)
        THEN [images |-> images, path |-> "", downloads |-> 0, raised |-> FALSE]
        ELSE IF filename \in DOMAIN images
        THEN [images |-> images,
              path |-> IF validate_image_file(images[filename]) THEN filename ELSE "",
              downloads |-> 0, raised |-> FALSE]
        ELSE IF response = "200_write_error"
        THEN [images |-> (filename :> written) @@ images,
              path |-> "", downloads |-> 1, raised |-> TRUE]
        ELSE IF response = "200_image"
        THEN [images |-> (filename :> written) @@ images,
              path |-> filename, downloads |-> 1, raised |-> FALSE]
        ELSE [images |-> images, path |-> "", downloads |-> 1,
              raised |-> RaisesInTry(response)]

\* Lines 43-86, the body of the try, on the images directory `images` at time
\* t, the download (if one is made) answered by `response`: the directory
\* left, the path returned ("" on failure), the number of requests.get calls
\* made, and whether the body raised.
CacheImageTry(images, image_url, response, t) ==
    LET filename == ImagePath(image_url)
        written == WrittenFile(response, t)
    IN  IF ~validate_image_url(image_url)
        THEN [images |-> images, path |-> "", downloads |-> 0, raised |-> FALSE]
        ELSE IF filename \in DOMAIN images /\ validate_image_file(images[filename])
        THEN [images |-> images, path |-> filename, downloads |-> 0, raised |-> FALSE]
        ELSE IF response = "200_write_error"
        THEN \* open() has created or truncated the file, f.write raised
             [images |-> (filename :> written) @@ images,
              path |-> "", downloads |-> 1, raised |-> TRUE]
        ELSE IF WritesFile(response)
        THEN IF validate_image_file(written)
             THEN [images |-> (filename :> written) @@ images,
                   path |-> filename, downloads |-> 1, raised |-> FALSE]
             ELSE \* os.remove(filename)
                  [images |-> [f \in DOMAIN images \ {filename} |-> images[f]],
                   path |-> "", downloads |-> 1, raised |-> FALSE]
        ELSE \* status_code != 200, or requests.get raised
             [images |-> images, path |-> "", downloads |-> 1,
              raised |-> RaisesInTry(response)]

\* lines 88-90: except Exception: return ""
cache_image_except(tried) ==
    [images |-> tried.images, path |-> "", downloads |-> tried.downloads,
     escaped |-> FALSE]

\* os.path.exists(filename) and the file fails validate_image_file
CorruptAt(images, image_url) ==
    /\ ImagePath(image_url) \in DOMAIN images
    /\ ~validate_image_file(images[ImagePath(image_url)])

\* The whole call: what the try body did, or what the except branch returns.
CacheImage(images, image_url, response, t) ==
    LET tried == CacheImageTry(images, image_url, response, t)
    IN  IF tried.raised
        THEN cache_image_except(tried)
        ELSE [images |-> tried.images, path |-> tried.path,
              downloads |-> tried.downloads, escaped |-> FALSE]

-----------------------------------------------------------------------------
(* OfflineCacheManager.cache_landmarks *)

\* 'image_url' in landmark and landmark['image_url']
HasImageUrl(landmark) ==
    "image_url" \in DOMAIN landmark /\ landmark.image_url # ""

\* the loop as it would be if a landmark whose image cannot be cached were
\* left out of cached_landmarks
RECURSIVE CacheLoopDropsFailed(_, _, _, _, _)
CacheLoopDropsFailed(images, landmarks, responses, t, n) ==
    IF n = 0
    THEN [images |-> images, cached_landmarks |-> <<>>, cached |-> {}, downloads |-> 0]
    ELSE LET before == CacheLoopDropsFailed(images, landmarks, responses, t, n - 1)
             landmark == landmarks[n]
         IN  IF HasImageUrl(landmark)
             THEN LET got == CacheImage(before.images, landmark.image_url, responses[n], t)
                  IN  [images |-> got.images,
                       cached_landmarks |->
                           IF got.path # ""
                           THEN Append(before.cached_landmarks,
                                       [landmark EXCEPT !.image_url = got.path])
                           ELSE before.cached_landmarks,
                       cached |-> IF got.path # "" THEN before.cached \cup {n}
                                  ELSE before.cached,
                       downloads |-> before.downloads + got.downloads]
             ELSE [before EXCEPT
                       !.cached_landmarks = Append(before.cached_landmarks, landmark)]

\* The loop over landmarks[1..n]: the images directory left, the list
\* cached_landmarks, the indices whose image was cached, the downloads made.
RECURSIVE CacheLoop(_, _, _, _, _)
CacheLoop(images, landmarks, responses, t, n) ==
    IF n = 0
    THEN [images |-> images, cached_landmarks |-> <<>>, cached |-> {}, downloads |-> 0]
    ELSE LET before == CacheLoop(images, landmarks, responses, t, n - 1)
             landmark == landmarks[n]
         IN  IF HasImageUrl(landmark)
             THEN LET got == CacheImage(before.images, landmark.image_url, responses[n], t)
                      cached_landmark ==
                          IF got.path # ""
                          THEN [landmark EXCEPT !.image_url = got.path]
                          ELSE landmark
                  IN  [images |-> got.images,
                       cached_landmarks |-> Append(before.cached_landmarks, cached_landmark),
                       cached |-> IF got.path # "" THEN before.cached \cup {n}
                                  ELSE before.cached,
                       downloads |-> before.downloads + got.downloads]
             ELSE [before EXCEPT
                       !.cached_landmarks = Append(before.cached_landmarks, landmark)]

\* A landmark file is the JSON record json.dump wrote, or what is left of it
\* when json.dump raised after open(cache_path, 'w') had truncated the file.
Truncated(t) == [truncated |-> TRUE, mtime |-> t]

\* json.load(f) gives the record
IsRecord(file) == "landmarks" \in DOMAIN file

\* what open(cache_path, 'w') and json.dump can do
WriteOutcomes == {"written", "open_raises", "dump_raises"}

\* lines 113-120 on the directory `dir`
WriteRecord(dir, cache_path, cache_data, write, t) ==
    CASE write = "written" -> (cache_path :> cache_data) @@ dir
      [] write = "open_raises" -> dir
      [] write = "dump_raises" -> (cache_path :> Truncated(t)) @@ dir

\* lines 122-125, reached when nothing raised before
UpdateStats(stats, dir, images, write, t) ==
    IF write = "written"
    THEN [landmarks_cached |-> Cardinality(DOMAIN dir),
          images_cached |-> Cardinality(DOMAIN images),
          last_update |-> t]
    ELSE stats

\* The whole call in the current state: the directories and statistics left.
\* An exception of the write ends in the except branch (lines 129-130), which
\* returns.
CacheLandmarks(landmarks, bounds, language, responses, write) ==
    LET loop == CacheLoop(images_dir, landmarks, responses, now, Len(landmarks))
        cache_path == CacheFile(language, bounds)
        cache_data == [landmarks |-> loop.cached_landmarks,
                       timestamp |-> now,
                       bounds |-> bounds,
                       language |-> language]
        dir == WriteRecord(landmarks_dir, cache_path, cache_data, write, now)
    IN  [landmarks_dir |-> dir,
         images_dir |-> loop.images,
         cache_stats |-> UpdateStats(cache_stats, dir, loop.images, write, now),
         cached_landmarks |-> loop.cached_landmarks,
         cached |-> loop.cached,
         downloads |-> loop.downloads,
         failed |-> write # "written",
         old |-> IF cache_path \in DOMAIN landmarks_dir
                 THEN {landmarks_dir[cache_path]} ELSE {},
         escaped |-> FALSE]

\* the model holds at most MaxRecords landmark files
RoomFor(language, bounds) ==
    \/ CacheFile(language, bounds) \in DOMAIN landmarks_dir
    \/ Cardinality(DOMAIN landmarks_dir) < MaxRecords

-----------------------------------------------------------------------------
(* OfflineCacheManager.get_cached_landmarks *)

NoFile == <<>>

\* the files the loop over os.listdir(landmarks_dir) looks at
Candidates(dir, language) == {f \in DOMAIN dir : StartsWith(f, language)}

\* The files the loop can leave in closest_cache: os.listdir lists in
\* arbitrary order and only a strictly smaller distance replaces the choice,
\* so any file at the least distance can be the one met first.
Closest(dir, bounds, language) ==
    {f \in Candidates(dir, language) :
        \A g \in Candidates(dir, language) :
            Distance(bounds, BoundsPieces(f)) <= Distance(bounds, BoundsPieces(g))}

\* if 'cached_image' in landmark: landmark['image_url'] = landmark['cached_image']
UseCachedImage(landmark) ==
    IF "cached_image" \in DOMAIN landmark
    THEN [k \in DOMAIN landmark \cup {"image_url"} |->
             IF k = "image_url" THEN landmark.cached_image ELSE landmark[k]]
    ELSE landmark

\* lines 162-173 on the record read
ReadRecord(cache_data, language, max_age_hours, t) ==
    IF t - cache_data.timestamp <= max_age_hours /\ cache_data.language = language
    THEN [i \in 1..Len(cache_data.landmarks) |-> UseCachedImage(cache_data.landmarks[i])]
    ELSE <<>>

\* lines 175-177: except Exception: return []
get_cached_except(closest_cache) ==
    [closest_cache |-> closest_cache, result |-> <<>>, escaped |-> FALSE]

\* get_cached_landmarks as it would be without the language: every file is a
\* candidate (startswith('landmarks_')) and line 164 tests the age only
GetCachedAnyLanguage(dir, bounds, language, max_age_hours, t) ==
    IF \/ DOMAIN dir = {}
       \/ \E f \in DOMAIN dir : FloatRaises(BoundsPieces(f))
    THEN {get_cached_except(NoFile)}
    ELSE {[closest_cache |-> f,
           result |-> IF IsRecord(dir[f]) /\ t - dir[f].timestamp <= max_age_hours
                      THEN dir[f].landmarks ELSE <<>>,
           escaped |-> FALSE] :
             f \in {g \in DOMAIN dir :
                       \A h \in DOMAIN dir :
                           Distance(bounds, BoundsPieces(g))
                             <= Distance(bounds, BoundsPieces(h))}}

\* get_cached_landmarks as it would be if a file that json.load cannot parse
\* were taken for a record of one landmark
GetCachedReadsAnything(dir, bounds, language, max_age_hours, t) ==
    IF \/ Candidates(dir, language) = {}
       \/ \E f \in Candidates(dir, language) : FloatRaises(BoundsPieces(f))
    THEN {get_cached_except(NoFile)}
    ELSE {[closest_cache |-> f,
           result |-> IF IsRecord(dir[f])
                      THEN ReadRecord(dir[f], language, max_age_hours, t)
                      ELSE <<[title |-> "?"]>>,
           escaped |-> FALSE] :
             f \in Closest(dir, bounds, language)}

\* What a call can end with: the file chosen and the list returned.
\* No candidate leaves cache_data unbound, a piece that is no number makes
\* float() raise, a file that holds no complete record makes json.load raise:
\* all end in the except branch, which returns [].
GetCached(dir, bounds, language, max_age_hours, t) ==
    IF \/ Candidates(dir, language) = {}
       \/ \E f \in Candidates(dir, language) : FloatRaises(BoundsPieces(f))
    THEN {get_cached_except(NoFile)}
    ELSE {IF IsRecord(dir[f])
          THEN [closest_cache |-> f,
                result |-> ReadRecord(dir[f], language, max_age_hours, t),
                escaped |-> FALSE]
          ELSE get_cached_except(f) :
             f \in Closest(dir, bounds, language)}

-----------------------------------------------------------------------------
(* OfflineCacheManager.clear_old_cache *)

\* a modification time that lies an hour before the timestamp in the record
MtimeBeforeTimestamp(file) ==
    IF IsRecord(file) THEN file.timestamp - 1 ELSE file.mtime

\* os.path.getmtime(cache_path): a record is written in one go, at its timestamp
Mtime(file) == IF IsRecord(file) THEN file.timestamp ELSE file.mtime

\* the test of the sweep with <= in place of <
IsOldOrDue(mtime, max_age_hours, t) == mtime <= t - max_age_hours

\* os.path.getmtime(path) < current_time - (max_age_hours * 3600)
IsOld(mtime, max_age_hours, t) == mtime < t - max_age_hours

Keep(dir, deleted) == [f \in DOMAIN dir \ deleted |-> dir[f]]

\* What a call can end with.  Both loops run to their end, or os.remove (or
\* os.path.getmtime) raises in the first loop, after some of the old records
\* are deleted, or in the second, after some of the old images are; the except
\* branch (lines 202-203) then returns.
ClearOldCache(dir, images, max_age_hours, t, faults) ==
    LET old_records == {f \in DOMAIN dir : IsOld(Mtime(dir[f]), max_age_hours, t)}
        old_images == {f \in DOMAIN images : IsOld(images[f].mtime, max_age_hours, t)}
    IN  {[landmarks_dir |-> Keep(dir, old_records),
          images_dir |-> Keep(images, old_images),
          cleared_count |-> Cardinality(old_records) + Cardinality(old_images),
          raised |-> FALSE, escaped |-> FALSE]}
        \cup
        {[landmarks_dir |-> Keep(dir, deleted),
          images_dir |-> images,
          cleared_count |-> Cardinality(deleted),
          raised |-> TRUE, escaped |-> FALSE] :
            deleted \in IF faults THEN SUBSET old_records ELSE {}}
        \cup
        {[landmarks_dir |-> Keep(dir, old_records),
          images_dir |-> Keep(images, deleted),
          cleared_count |-> Cardinality(old_records) + Cardinality(deleted),
          raised |-> TRUE, escaped |-> FALSE] :
            deleted \in IF faults /\ old_images # {} THEN SUBSET old_images ELSE {}}

-----------------------------------------------------------------------------
(* The calls *)

NoCall ==
    [op |-> "none", bounds |-> <<0, 0, 0, 0>>, language |-> "", max_age_hours |-> 0,
     zoom_level |-> 0, offline_mode |-> FALSE, url |-> "",
     landmarks |-> <<>>, cached |-> {}, wrote |-> FALSE,
     fetched |-> FALSE, raised |-> FALSE, downloads |-> 0,
     closest_cache |-> NoFile, result |-> <<>>, path |-> "",
     response |-> "", corrupt_before |-> FALSE, escaped |-> FALSE,
     failed |-> FALSE, old |-> {}, cleared_count |-> 0,
     landmarks_before |-> <<>>, images_before |-> <<>>,
     stats |-> [landmarks_cached |-> 0, images_cached |-> 0, last_update |-> -1]]

\* Each interaction runs to completion before the next is issued: the caller
\* takes the result of a call (Return) before the next call.  Two kinds of
\* call are also looked at as the continuation of the call before: a
\* _cache_image after a _cache_image, and a get_cached_landmarks right after
\* the record it asks for was written.
Ready == last.op = "none"

\* a get_cached_landmarks for (bounds, language) comes right after a call
\* that wrote the record of (bounds, language)
AfterPut(bounds, language) ==
    last.wrote /\ last.bounds = bounds /\ last.language = language

\* the answer to the download of landmark i's image, when one is made
ResponsesFor(landmarks, responses) ==
    {r \in [1..Len(landmarks) -> responses] :
        \A i \in 1..Len(landmarks) : ~HasImageUrl(landmarks[i]) => r[i] = "404"}

\* what the write of the record does, when cache_landmarks is called
WritesFor(landmarks, writes) ==
    IF landmarks = <<>> THEN {"written"} ELSE writes

\* the sessions that share the cache root; one not inside cache_landmarks
Sessions == {1, 2}
Idle == [pc |-> "idle", landmarks |-> <<>>, cached_landmarks |-> <<>>,
         document |-> <<>>, offset |-> 0, raced |-> FALSE,
         cache_stats |-> [landmarks_cached |-> 0, images_cached |-> 0, last_update |-> -1]]

Init ==
    /\ now = 0
    /\ landmarks_dir = <<>>
    /\ images_dir = <<>>
    /\ cache_stats = [landmarks_cached |-> 0, images_cached |-> 0, last_update |-> -1]
    /\ last = NoCall
    /\ prev = NoCall
    /\ disk_file = <<>>
    /\ sessions = [s \in Sessions |-> Idle]

Tick ==
    \E d \in TickSteps :
        /\ Ready
        /\ now + d <= MaxNow
        /\ now' = now + d
        /\ last' = NoCall
        /\ prev' = NoCall
        /\ UNCHANGED <<race, landmarks_dir, images_dir, cache_stats>>

Return ==
    /\ ~Ready
    /\ last' = NoCall
    /\ prev' = NoCall
    /\ UNCHANGED <<race, now, landmarks_dir, images_dir, cache_stats>>

\* a call of _cache_image with one of `urls`, answered by one of `responses`;
\* `chained` lets it come right after a _cache_image call with the same URL
CacheImageCall(urls, responses, chained) ==
    \E image_url \in urls, response \in responses :
        LET got == CacheImage(images_dir, image_url, response, now)
        IN  /\ Ready \/ (chained /\ last.op = "_cache_image" /\ last.url = image_url)
            /\ images_dir' = got.images
            /\ last' = [NoCall EXCEPT !.op = "_cache_image", !.url = image_url,
                                      !.path = got.path, !.downloads = got.downloads,
                                      !.response = IF got.downloads = 1
                                                   THEN response ELSE "",
                                      !.corrupt_before = CorruptAt(images_dir, image_url),
                                      !.escaped = got.escaped]
            /\ prev' = IF last.op = "_cache_image" /\ last.url = image_url
                       THEN last ELSE NoCall
            /\ UNCHANGED <<race, now, landmarks_dir, cache_stats>>

\* a call of cache_landmarks with what was found for one of `founds`
CacheLandmarksCall(founds, responses, writes) ==
    \E found \in founds, write \in writes :
      \E image_responses \in ResponsesFor(found[3], responses) :
        LET language == found[1]
            bounds == found[2]
            landmarks == found[3]
            put == CacheLandmarks(landmarks, bounds, language, image_responses, write)
        IN  /\ Ready
            /\ RoomFor(language, bounds)
            /\ landmarks_dir' = put.landmarks_dir
            /\ images_dir' = put.images_dir
            /\ cache_stats' = put.cache_stats
            /\ last' = [NoCall EXCEPT !.op = "cache_landmarks", !.bounds = bounds,
                                      !.language = language, !.landmarks = landmarks,
                                      !.cached = put.cached, !.wrote = ~put.failed,
                                      !.downloads = put.downloads,
                                      !.failed = put.failed, !.old = put.old,
                                      !.escaped = put.escaped]
            /\ prev' = NoCall
            /\ UNCHANGED <<race, now>>

\* a call of get_cached_landmarks for one of `requests`
GetCachedLandmarksCall(requests, max_ages) ==
    \E request \in requests, max_age_hours \in max_ages :
      LET language == request[1]
          bounds == request[2]
      IN  \E got \in GetCached(landmarks_dir, bounds, language, max_age_hours, now) :
            /\ Ready \/ AfterPut(bounds, language)
            /\ last' = [NoCall EXCEPT !.op = "get_cached_landmarks", !.bounds = bounds,
                                      !.language = language,
                                      !.max_age_hours = max_age_hours,
                                      !.closest_cache = got.closest_cache,
                                      !.result = got.result,
                                      !.escaped = got.escaped]
            /\ prev' = IF AfterPut(bounds, language) THEN last ELSE NoCall
            /\ UNCHANGED <<race, now, landmarks_dir, images_dir, cache_stats>>

\* a call of clear_old_cache
ClearOldCacheCall(max_ages, faults) ==
    \E max_age_hours \in max_ages :
      \E swept \in ClearOldCache(landmarks_dir, images_dir, max_age_hours, now, faults) :
        /\ Ready
        /\ landmarks_dir' = swept.landmarks_dir
        /\ images_dir' = swept.images_dir
        /\ last' = [NoCall EXCEPT !.op = "clear_old_cache",
                                  !.max_age_hours = max_age_hours,
                                  !.cleared_count = swept.cleared_count,
                                  !.raised = swept.raised,
                                  !.escaped = swept.escaped,
                                  !.landmarks_before = landmarks_dir,
                                  !.images_before = images_dir]
        /\ prev' = NoCall
        /\ UNCHANGED <<race, now, cache_stats>>

\* get_cache_stats: return st.session_state.cache_stats
get_cache_stats ==
    /\ Ready
    /\ last' = [NoCall EXCEPT !.op = "get_cache_stats", !.stats = cache_stats]
    /\ prev' = NoCall
    /\ UNCHANGED <<race, now, landmarks_dir, images_dir, cache_stats>>

-----------------------------------------------------------------------------
(* The two get_landmarks *)

\* what wiki_fetcher.get_landmarks(bounds) / places_handler.get_landmarks(bounds)
\* can do: raise, find nothing, or return the landmarks in the bounds
FetchOutcomes(language, bounds) ==
    {[raised |-> TRUE, landmarks |-> <<>>], [raised |-> FALSE, landmarks |-> <<>>]}
      \cup {[raised |-> FALSE, landmarks |-> f[3]] :
               f \in {g \in Found : g[1] = language /\ g[2] = bounds}}

\* return []
ReturnEmpty(call) ==
    /\ last' = call
    /\ UNCHANGED <<landmarks_dir, images_dir, cache_stats>>

\* return cache_manager.get_cached_landmarks(bounds, language)
ReturnCached(call) ==
    \E got \in GetCached(landmarks_dir, call.bounds, call.language,
                         DefaultMaxAgeHours, now) :
      /\ last' = [call EXCEPT !.closest_cache = got.closest_cache,
                              !.result = got.result,
                              !.escaped = got.escaped]
      /\ UNCHANGED <<landmarks_dir, images_dir, cache_stats>>

\* src/main.py, the except branch
main_except(call) ==
    IF call.offline_mode THEN ReturnCached(call) ELSE ReturnEmpty(call)

\* the except branch of the wrapper, were it to return [] as main.py's does online
ExceptReturnsEmpty(call) == ReturnEmpty(call)

\* src/cache_manager.py, the except branch of the wrapper
cache_manager_except(call) == ReturnCached(call)

\* the wrapper's steps from the fetch on: cache_landmarks on a non-empty list,
\* then return landmarks
FetchedAndCached(call, landmarks, responses, write) ==
    LET put == CacheLandmarks(landmarks, call.bounds, call.language, responses, write)
    IN  IF landmarks = <<>>
        THEN /\ last' = [call EXCEPT !.fetched = TRUE]
             /\ UNCHANGED <<landmarks_dir, images_dir, cache_stats>>
        ELSE /\ RoomFor(call.language, call.bounds)
             /\ landmarks_dir' = put.landmarks_dir
             /\ images_dir' = put.images_dir
             /\ cache_stats' = put.cache_stats
             /\ last' = [call EXCEPT !.fetched = TRUE, !.landmarks = landmarks,
                                     !.cached = put.cached, !.wrote = ~put.failed,
                                     !.downloads = put.downloads,
                                     !.failed = put.failed, !.old = put.old,
                                     !.escaped = put.escaped,
                                     !.result = landmarks]

\* src/main.py get_landmarks; offline_mode is st.session_state.offline_mode
MainGetLandmarksCall(requests, responses, writes) ==
    \E request \in requests, zoom_level \in Zooms, data_source \in DataSources,
       offline_mode \in BOOLEAN :
      LET language == request[1]
          bounds == request[2]
          call == [NoCall EXCEPT !.op = "get_landmarks", !.bounds = bounds,
                                 !.language = language, !.zoom_level = zoom_level,
                                 !.offline_mode = offline_mode]
      IN  /\ Ready
          /\ prev' = NoCall
          /\ UNCHANGED <<race, now>>
          /\ IF offline_mode
             THEN ReturnCached(call)
             ELSE IF zoom_level >= MinFetchZoom
             THEN IF data_source = "Wikipedia"
                  THEN \* main.py never imports WikiLandmarkFetcher: the
                       \* NameError is caught, no fetch source is called
                       main_except(call)
                  ELSE \E fetch \in FetchOutcomes(language, bounds) :
                         IF fetch.raised
                         THEN main_except(
                                  [call EXCEPT !.fetched = TRUE, !.raised = TRUE])
                         ELSE \E image_responses \in ResponsesFor(fetch.landmarks, responses),
                                 write \in WritesFor(fetch.landmarks, writes) :
                                FetchedAndCached(call, fetch.landmarks,
                                                 image_responses, write)
             ELSE ReturnEmpty(call)

\* src/cache_manager.py get_landmarks, the one main.py imports and calls
CacheManagerGetLandmarksCall(requests, responses, writes) ==
    \E request \in requests, zoom_level \in Zooms, data_source \in DataSources,
       offline_mode \in BOOLEAN :
      LET language == request[1]
          bounds == request[2]
          call == [NoCall EXCEPT !.op = "cache_manager.get_landmarks",
                                 !.bounds = bounds, !.language = language,
                                 !.zoom_level = zoom_level,
                                 !.offline_mode = offline_mode]
      IN  /\ Ready
          /\ prev' = NoCall
          /\ UNCHANGED <<race, now>>
          /\ IF zoom_level >= MinFetchZoom
             THEN \E fetch \in FetchOutcomes(language, bounds) :
                    IF fetch.raised
                    THEN cache_manager_except(
                             [call EXCEPT !.fetched = TRUE, !.raised = TRUE])
                    ELSE \E image_responses \in ResponsesFor(fetch.landmarks, responses),
                            write \in WritesFor(fetch.landmarks, writes) :
                           FetchedAndCached(call, fetch.landmarks,
                                            image_responses, write)
             ELSE ReturnCached(call)

-----------------------------------------------------------------------------
(* The program on a disk that takes every write *)

_cache_image == CacheImageCall(Urls, Responses, TRUE)

cache_landmarks == CacheLandmarksCall(Found, Responses, {"written"})

get_cached_landmarks == GetCachedLandmarksCall(GetRequests, MaxAges)

get_landmarks == MainGetLandmarksCall(WrapperRequests, Responses, {"written"})

cache_manager_get_landmarks ==
    CacheManagerGetLandmarksCall(WrapperRequests, Responses, {"written"})

Next ==
    \/ Tick
    \/ Return
    \/ _cache_image
    \/ cache_landmarks
    \/ get_cached_landmarks
    \/ get_landmarks
    \/ cache_manager_get_landmarks

Spec == Init /\ [][Next]_vars

-----------------------------------------------------------------------------
(* The program on a disk that can fail, with the sweep and the statistics *)

\* the landmarks put into the store; B1, B1off and B1neg round to the same bounds
StoreFound ==
    {<<"en", B1, <<Bridge>>>>,
     <<"en", B1off, <<Island, Bridge>>>>,
     <<"en", B1neg, <<Island>>>>,
     <<"fr", B1, <<Pont>>>>}

StoreRequests == {<<"en", B1>>, <<"fr", B1>>}
StoreWrapperRequests == {<<"en", B1>>}
SweepAges == {24, 25}

CacheImageOnFaultyDisk == CacheImageCall(Urls, ResponsesOnFaultyDisk, FALSE)

CacheLandmarksOnFaultyDisk ==
    CacheLandmarksCall(StoreFound, ResponsesOnFaultyDisk, WriteOutcomes)

GetCachedLandmarksFromStore == GetCachedLandmarksCall(StoreRequests, MaxAges)

clear_old_cache == ClearOldCacheCall(SweepAges, TRUE)

GetLandmarksOnFaultyDisk ==
    MainGetLandmarksCall(StoreWrapperRequests, ResponsesOnFaultyDisk, WriteOutcomes)

CacheManagerGetLandmarksOnFaultyDisk ==
    CacheManagerGetLandmarksCall(StoreWrapperRequests, ResponsesOnFaultyDisk,
                                 WriteOutcomes)

StoreNext ==
    \/ Tick
    \/ Return
    \/ CacheImageOnFaultyDisk
    \/ CacheLandmarksOnFaultyDisk
    \/ GetCachedLandmarksFromStore
    \/ clear_old_cache
    \/ get_cache_stats
    \/ GetLandmarksOnFaultyDisk
    \/ CacheManagerGetLandmarksOnFaultyDisk

StoreSpec == Init /\ [][StoreNext]_vars

-----------------------------------------------------------------------------
(* Properties of the landmark cache store *)

IsGet == last.op = "get_cached_landmarks"

\* the lists a get_cached_landmarks(bounds, language, max_age_hours) can return now
CachedNow(bounds, language, max_age_hours) ==
    {got.result : got \in GetCached(landmarks_dir, bounds, language, max_age_hours, now)}

\* the input list with the image_url of every landmark whose image was cached
\* replaced by the local path of that image
WithLocalImages(landmarks, cached) ==
    [i \in 1..Len(landmarks) |->
        IF i \in cached
        THEN [landmarks[i] EXCEPT !.image_url = ImagePath(landmarks[i].image_url)]
        ELSE landmarks[i]]

\* the stored records put under `language`
RecordsOf(language) ==
    {f \in DOMAIN landmarks_dir :
        IsRecord(landmarks_dir[f]) /\ landmarks_dir[f].language = language}

\* squared Euclidean distance over south, west, north and east
Distance4(a, b) ==
    (a[1] - b[1]) * (a[1] - b[1]) + (a[2] - b[2]) * (a[2] - b[2])
      + (a[3] - b[3]) * (a[3] - b[3]) + (a[4] - b[4]) * (a[4] - b[4])

\* the records of `language` whose bounds are nearest to `bounds`
Nearest(bounds, language) ==
    {f \in RecordsOf(language) :
        \A g \in RecordsOf(language) :
            Distance4(bounds, landmarks_dir[f].bounds)
              <= Distance4(bounds, landmarks_dir[g].bounds)}

Age(f) == now - landmarks_dir[f].timestamp

\* C1 (as claimed): a get_cached_landmarks right after a cache_landmarks with
\* the same bounds and language, max_age_hours > 0, returns the list that was
\* put, each successfully cached image_url replaced by its local path.
C1_RoundTrip ==
    (IsGet /\ prev.op = "cache_landmarks" /\ last.max_age_hours > 0)
        => last.result = WithLocalImages(prev.landmarks, prev.cached)

\* C2 (as claimed): when records of the requested language are stored,
\* get_cached_landmarks selects the one whose bounds are nearest to the
\* requested bounds, the distance taken over all four coordinates.
C2_NearestMatch ==
    (IsGet /\ RecordsOf(last.language) # {})
        => last.closest_cache \in Nearest(last.bounds, last.language)

\* C2, the example of the claim: with records at B1 and at the far B2, a get
\* near B1 selects the record of B1.
C2_ExampleHolds ==
    (/\ IsGet /\ last.bounds = B1near /\ last.language = "en"
     /\ RecordsOf("en") = {CacheFile("en", B1), CacheFile("en", B2)})
        => last.closest_cache = CacheFile("en", B1)

\* C3: get_cached_landmarks returns landmarks only from a record put under the
\* requested language, and returns [] when no record of that language is stored.
C3_LanguageIsolation ==
    IsGet =>
        /\ last.result # <<>> =>
              /\ last.closest_cache \in RecordsOf(last.language)
              /\ last.result = landmarks_dir[last.closest_cache].landmarks
        /\ RecordsOf(last.language) = {} => last.result = <<>>

\* C3 witness: a record put under "en" at B1 is stored and fresh, none under
\* "fr", and a get under "fr" for B1 returned [].
C3_Witness ==
    /\ IsGet /\ last.language = "fr" /\ last.bounds = B1 /\ last.result = <<>>
    /\ CacheFile("en", B1) \in RecordsOf("en")
    /\ Age(CacheFile("en", B1)) <= last.max_age_hours
    /\ RecordsOf("fr") = {}

\* C4 (as claimed): the result is the landmark list of the nearest record of
\* the language when that record is not older than max_age_hours, and []
\* when it is older, whatever other records are stored.
C4_Staleness ==
    (IsGet /\ RecordsOf(last.language) # {})
        => \E f \in Nearest(last.bounds, last.language) :
              last.result = IF Age(f) <= last.max_age_hours
                            THEN landmarks_dir[f].landmarks
                            ELSE <<>>

\* C4, the example of the claim: a single record aged 25 h is a miss with
\* max_age_hours = 24 and a hit with max_age_hours = 26.
C4_ExampleHolds ==
    (/\ IsGet /\ last.language \in {"en", "fr"}
     /\ DOMAIN landmarks_dir = {CacheFile(last.language, last.bounds)}
     /\ IsRecord(landmarks_dir[CacheFile(last.language, last.bounds)])
     /\ Age(CacheFile(last.language, last.bounds)) = 25)
        => /\ last.max_age_hours = 24 => last.result = <<>>
           /\ last.max_age_hours = 26 =>
                 last.result =
                     landmarks_dir[CacheFile(last.language, last.bounds)].landmarks

\* the key of a record: its language and its bounds rounded to 3 decimals
KeyOf(cache_data) ==
    <<cache_data.language, [i \in 1..4 |-> Round3(cache_data.bounds[i])]>>

\* a cache_landmarks call, direct or made by get_landmarks, that wrote its record
IsPut ==
    /\ last.op \in {"cache_landmarks", "get_landmarks", "cache_manager.get_landmarks"}
    /\ last.wrote

\* C14, second half: the record stored under the key of a put is the record of
\* that put alone: its landmarks, its timestamp, its bounds.
C14_ReplacedWholesale ==
    IsPut => landmarks_dir[CacheFile(last.language, last.bounds)] =
                 [landmarks |-> WithLocalImages(last.landmarks, last.cached),
                  timestamp |-> now,
                  bounds |-> last.bounds,
                  language |-> last.language]

\* C14 (as claimed): the store holds at most one record for each language and
\* bounds rounded to 3 decimals, and it is the record of the latest put.
C14_OneRecordPerKey ==
    /\ \A f, g \in DOMAIN landmarks_dir :
          (/\ IsRecord(landmarks_dir[f]) /\ IsRecord(landmarks_dir[g])
           /\ KeyOf(landmarks_dir[f]) = KeyOf(landmarks_dir[g])) => f = g
    /\ C14_ReplacedWholesale

-----------------------------------------------------------------------------
(* Properties of the orchestrator *)

IsWrapper == last.op \in {"get_landmarks", "cache_manager.get_landmarks"}

\* the fetch source was called and returned a non-empty list
FetchedSome(call) == call.fetched /\ ~call.raised /\ call.landmarks # <<>>

\* C5 (as claimed): online and below zoom 8, get_landmarks returns [] and
\* calls no fetch source.
C5_ZoomGate ==
    (IsWrapper /\ ~last.offline_mode /\ last.zoom_level < MinFetchZoom)
        => last.result = <<>> /\ ~last.fetched

\* C6 (as claimed): with offline_mode true, get_landmarks calls no fetch source
\* and returns what get_cached_landmarks(bounds, language) returns.
C6_OfflineMode ==
    (IsWrapper /\ last.offline_mode)
        => /\ ~last.fetched
           /\ last.result \in CachedNow(last.bounds, last.language, DefaultMaxAgeHours)

\* C7 (as claimed): online, a fetch source that raises makes get_landmarks
\* return [].
C7_OnlineFetchFailure ==
    (IsWrapper /\ ~last.offline_mode /\ last.raised) => last.result = <<>>

\* C8: when the fetch source raised with offline_mode true, get_landmarks
\* returned what get_cached_landmarks(bounds, language) returns.
C8_OfflineFallback ==
    (IsWrapper /\ last.offline_mode /\ last.raised)
        => last.result \in CachedNow(last.bounds, last.language, DefaultMaxAgeHours)

\* C8 witness: the fetch source raised in offline mode and the call returned
\* the landmarks of a cached record.
C8_Witness ==
    /\ IsWrapper /\ last.offline_mode /\ last.raised
    /\ last.result # <<>>
    /\ last.result = landmarks_dir[last.closest_cache].landmarks

\* C9, first half: an online call at zoom >= 8 whose fetch source returned a
\* non-empty list has written it, with the cached images' local paths, under
\* the key of (language, bounds) when it returns.
C9_WrittenBeforeReturn ==
    (IsWrapper /\ ~last.offline_mode /\ last.zoom_level >= MinFetchZoom
       /\ FetchedSome(last) /\ ~last.failed)
        => /\ CacheFile(last.language, last.bounds) \in DOMAIN landmarks_dir
           /\ landmarks_dir[CacheFile(last.language, last.bounds)] =
                 [landmarks |-> WithLocalImages(last.landmarks, last.cached),
                  timestamp |-> now,
                  bounds |-> last.bounds,
                  language |-> last.language]

\* C9 (as claimed): the list is written before the call returns, so that a
\* get_cached_landmarks for the same bounds and language right after is a hit.
C9_CachePopulation ==
    /\ C9_WrittenBeforeReturn
    /\ (IsGet /\ prev.op \in {"get_landmarks", "cache_manager.get_landmarks"}
          /\ ~prev.offline_mode /\ prev.zoom_level >= MinFetchZoom /\ FetchedSome(prev))
           => last.result # <<>>

-----------------------------------------------------------------------------
(* Properties of the image cache *)

\* two successive _cache_image calls with the same URL, which validate_image_url
\* accepts
TwoCalls ==
    /\ last.op = "_cache_image" /\ prev.op = "_cache_image"
    /\ last.url = prev.url /\ validate_image_url(last.url)

C11_CachedImageInvariant ==
    \A f \in DOMAIN images_dir : validate_image_file(images_dir[f])

\* C11, without storage errors: a call whose write did not fail leaves a valid
\* image or no file at the path derived from its URL, unless an invalid file
\* was there before and the download brought no 200 response.
C11_HoldsWithoutWriteError ==
    (/\ last.op = "_cache_image" /\ validate_image_url(last.url)
     /\ last.response # "200_write_error"
     /\ ~(last.corrupt_before /\ last.response \in {"404", "timeout"}))
        => ~CorruptAt(images_dir, last.url)

\* C12: when a file exists at the derived path and fails validation,
\* _cache_image downloads the URL again; a download that brings a valid image
\* overwrites the file and the call returns the path.
C12_CorruptFileSelfHeal ==
    (last.op = "_cache_image" /\ last.corrupt_before)
        => /\ last.downloads = 1
           /\ last.response = "200_image" =>
                 /\ last.path = ImagePath(last.url)
                 /\ ImagePath(last.url) \in DOMAIN images_dir
                 /\ validate_image_file(images_dir[ImagePath(last.url)])
                 /\ images_dir[ImagePath(last.url)].mtime = now

\* C12 witness: an invalid file was at the path, the call downloaded a valid
\* image and returned the path.
C12_Witness ==
    /\ last.op = "_cache_image" /\ last.corrupt_before
    /\ last.response = "200_image" /\ last.path = ImagePath(last.url)
    /\ validate_image_file(images_dir[ImagePath(last.url)])

-----------------------------------------------------------------------------
(* Properties of the store on a disk that can fail, the sweep, the statistics *)

PutOps == {"cache_landmarks", "get_landmarks", "cache_manager.get_landmarks"}

\* C13, the part that holds: no call lets an exception go on to its caller;
\* _cache_image returns "" when the URL is rejected and when its download
\* brings anything but a valid image that the disk takes; get_cached_landmarks
\* returns [] when it raised inside.
C13_NothingEscapes ==
    /\ ~last.escaped
    /\ (last.op = "_cache_image" /\ ~validate_image_url(last.url)) => last.path = ""
    /\ (last.op = "_cache_image" /\ last.downloads = 1 /\ last.response # "200_image")
          => last.path = ""
    /\ (IsGet /\ last.closest_cache = NoFile) => last.result = <<>>

\* C13 (as claimed): no operation lets an exception go on to its caller and
\* each ends with its fallback value: "" for _cache_image, [] for
\* get_cached_landmarks and for get_landmarks when a collaborator raised.
C13_NoExceptionEscapes ==
    /\ C13_NothingEscapes
    /\ (IsWrapper /\ last.raised) => last.result = <<>>

\* C15 (as claimed): get_cache_stats returns the number of landmark records
\* stored and the number of image files stored.
C15_StatsNeverStale ==
    last.op = "get_cache_stats"
        => /\ last.stats.landmarks_cached = Cardinality(DOMAIN landmarks_dir)
           /\ last.stats.images_cached = Cardinality(DOMAIN images_dir)

\* C15, what holds: the counts are those of the directories when the last
\* cache_landmarks call wrote its record.
C15_StatsOfLastPut ==
    (last.op \in PutOps /\ last.wrote)
        => /\ cache_stats.landmarks_cached = Cardinality(DOMAIN landmarks_dir)
           /\ cache_stats.images_cached = Cardinality(DOMAIN images_dir)
           /\ cache_stats.last_update = now

\* a clear_old_cache(max_age_hours) that ended without an error
Swept == last.op = "clear_old_cache" /\ ~last.raised

\* the file's modification time is older than max_age_hours
Older(mtime, max_age_hours) == now - mtime > max_age_hours

\* C16: after a clear_old_cache(max_age_hours) that ended without an error no
\* record and no image older than max_age_hours is left, every record and
\* image not older is still there as it was, and the count is the number of
\* files deleted.
C16_EvictionSweep ==
    Swept =>
        /\ \A f \in DOMAIN landmarks_dir :
              ~Older(Mtime(landmarks_dir[f]), last.max_age_hours)
        /\ \A f \in DOMAIN images_dir :
              ~Older(images_dir[f].mtime, last.max_age_hours)
        /\ \A f \in DOMAIN last.landmarks_before :
              ~Older(Mtime(last.landmarks_before[f]), last.max_age_hours)
                 => /\ f \in DOMAIN landmarks_dir
                    /\ landmarks_dir[f] = last.landmarks_before[f]
        /\ \A f \in DOMAIN last.images_before :
              ~Older(last.images_before[f].mtime, last.max_age_hours)
                 => /\ f \in DOMAIN images_dir
                    /\ images_dir[f] = last.images_before[f]
        /\ DOMAIN landmarks_dir \subseteq DOMAIN last.landmarks_before
        /\ DOMAIN images_dir \subseteq DOMAIN last.images_before
        /\ last.cleared_count =
              Cardinality(DOMAIN last.landmarks_before \ DOMAIN landmarks_dir)
                + Cardinality(DOMAIN last.images_before \ DOMAIN images_dir)

\* C16 witness: a sweep deleted an old record and kept a record that was
\* exactly max_age_hours old or younger.
C16_Witness ==
    /\ Swept /\ last.cleared_count >= 1
    /\ DOMAIN landmarks_dir # {}
    /\ DOMAIN landmarks_dir # DOMAIN last.landmarks_before

\* the image of `image_url` is in the images directory and valid
ImageCached(image_url) ==
    /\ validate_image_url(image_url)
    /\ ImagePath(image_url) \in DOMAIN images_dir
    /\ validate_image_file(images_dir[ImagePath(image_url)])

\* C17: the list a cache_landmarks call persisted has the length and order of
\* the input list; a landmark with a non-empty image_url whose image was cached
\* has the local path in image_url, every other landmark is stored as it came.
C17_KeepsEveryLandmark ==
    (last.op \in PutOps /\ last.wrote) =>
        LET stored == landmarks_dir[CacheFile(last.language, last.bounds)].landmarks
        IN  /\ Len(stored) = Len(last.landmarks)
            /\ last.cached = {i \in 1..Len(last.landmarks) :
                                 /\ HasImageUrl(last.landmarks[i])
                                 /\ ImageCached(last.landmarks[i].image_url)}
            /\ \A i \in 1..Len(last.landmarks) :
                  stored[i] = IF i \in last.cached
                              THEN [last.landmarks[i] EXCEPT
                                       !.image_url = ImagePath(last.landmarks[i].image_url)]
                              ELSE last.landmarks[i]

\* C17 witness: a list of two landmarks was persisted, the second one's image
\* could not be cached and the landmark kept its remote image_url.
C17_Witness ==
    /\ last.op = "cache_landmarks" /\ last.wrote
    /\ last.landmarks = <<Island, Bridge>> /\ last.cached = {}
    /\ last.downloads = 1
    /\ landmarks_dir[CacheFile(last.language, last.bounds)].landmarks = <<Island, Bridge>>

\* C18: get_cached_landmarks returns [] when no record of the requested
\* language is stored and when the file it selected holds no complete record.
C18_EmptyOnNoRecordOrParseError ==
    IsGet =>
        /\ RecordsOf(last.language) = {} => last.result = <<>>
        /\ (/\ last.closest_cache \in DOMAIN landmarks_dir
            /\ ~IsRecord(landmarks_dir[last.closest_cache])) => last.result = <<>>
        /\ ~last.escaped

\* C18 witness: the file selected holds no complete record and the call
\* returned [].
C18_Witness ==
    /\ IsGet /\ last.closest_cache \in DOMAIN landmarks_dir
    /\ ~IsRecord(landmarks_dir[last.closest_cache])
    /\ last.result = <<>>

\* the paths _cache_image returns
LocalPaths == {ImagePath(image_url) : image_url \in Urls}

\* C19 (as claimed): every local image path stored in a record of the store
\* points to an existing image file.
C19_ReferencedImagesKept ==
    \A f \in DOMAIN landmarks_dir :
        IsRecord(landmarks_dir[f]) =>
            \A i \in 1..Len(landmarks_dir[f].landmarks) :
                LET landmark == landmarks_dir[f].landmarks[i]
                IN  (HasImageUrl(landmark) /\ landmark.image_url \in LocalPaths)
                        => landmark.image_url \in DOMAIN images_dir

\* C20 (as claimed): a cache_landmarks call that failed leaves the file of its
\* key as it was: the record stored before, or no file.
C20_FailedPutIsNoOp ==
    (last.op \in PutOps /\ last.failed) =>
        LET cache_path == CacheFile(last.language, last.bounds)
        IN  IF last.old = {}
            THEN cache_path \notin DOMAIN landmarks_dir
            ELSE /\ cache_path \in DOMAIN landmarks_dir
                 /\ landmarks_dir[cache_path] \in last.old

\* C20, what holds: a call that failed before open() truncated the file
\* leaves the landmark files as they were; one that failed later leaves a
\* file that holds no complete record.
C20_FailedPutLeavesOldOrTruncated ==
    (last.op \in PutOps /\ last.failed) =>
        LET cache_path == CacheFile(last.language, last.bounds)
        IN  \/ /\ last.old = {} /\ cache_path \notin DOMAIN landmarks_dir
            \/ /\ cache_path \in DOMAIN landmarks_dir
               /\ landmarks_dir[cache_path] \in last.old
            \/ /\ cache_path \in DOMAIN landmarks_dir
               /\ landmarks_dir[cache_path] = Truncated(now)

-----------------------------------------------------------------------------
(* Records of other languages, the sweep against the freshness test *)

\* the file name is the one cache_landmarks gives to a record of `language`:
\* the pieces of the language and four pieces for the bounds
NamedFor(cache_file, language) ==
    /\ StartsWith(cache_file, language)
    /\ Len(cache_file) = 1 + Len(SplitLanguage(language)) + 4

\* the store without the files of every language but `language`
OnlyLanguage(dir, language) ==
    [f \in {g \in DOMAIN dir : NamedFor(g, language)} |-> dir[f]]

\* the lists get_cached_landmarks can return when the store holds the files
\* of the requested language and no others
AloneInStore(bounds, language, max_age_hours) ==
    {got.result :
        got \in GetCached(OnlyLanguage(landmarks_dir, language), bounds, language,
                          max_age_hours, now)}

\* C21 (as claimed): the result of get_cached_landmarks(bounds, L,
\* max_age_hours) is the one the call has on the store that holds the same
\* files of L and no file of another language.
C21_OtherLanguagesNoInfluence ==
    IsGet => last.result \in AloneInStore(last.bounds, last.language, last.max_age_hours)

\* C21, what holds: the same, as long as no file of another language has a
\* name that starts with landmarks_L_.
C21_HoldsWithoutPrefixedLanguage ==
    (IsGet /\ \A f \in Candidates(landmarks_dir, last.language) :
                   NamedFor(f, last.language))
        => last.result \in AloneInStore(last.bounds, last.language, last.max_age_hours)

\* the landmark files the last clear_old_cache call deleted
Removed == DOMAIN last.landmarks_before \ DOMAIN landmarks_dir

\* the files a get_cached_landmarks(bounds, language, max_age_hours) issued in
\* place of the last clear_old_cache call would have returned landmarks from
HitsBefore(max_age_hours) ==
    {got.closest_cache :
        got \in {g \in UNION {GetCached(last.landmarks_before, request[2], request[1],
                                        max_age_hours, now) : request \in StoreRequests} :
                    g.result # <<>>}}

\* C22: clear_old_cache(h), ended with or without an error, deletes no record
\* that get_cached_landmarks(bounds, language, h) would return landmarks from
\* at that moment, and every record it deletes has an age, now - timestamp,
\* greater than h.
C22_SweepCoarserThanFreshness ==
    last.op = "clear_old_cache" =>
        /\ HitsBefore(last.max_age_hours) \cap Removed = {}
        /\ \A f \in Removed :
              IsRecord(last.landmarks_before[f])
                 => now - last.landmarks_before[f].timestamp > last.max_age_hours

\* C22 witness: a sweep deleted a record and kept another, which
\* get_cached_landmarks returns landmarks from under the same max_age_hours.
C22_Witness ==
    /\ last.op = "clear_old_cache"
    /\ \E f \in Removed : IsRecord(last.landmarks_before[f])
    /\ HitsBefore(last.max_age_hours) # {}
    /\ HitsBefore(last.max_age_hours) \subseteq DOMAIN landmarks_dir

-----------------------------------------------------------------------------
(* Two sessions that share the cache root and put under the same key *)

\* The file is looked at in units of equal length: the opening of the JSON
\* object, one unit per landmark, and the timestamp, bounds and language that
\* close it.  The buffered file object hands the operating system BufferUnits
\* units per write (io.DEFAULT_BUFFER_SIZE bytes), the rest when it is closed.
BufferUnits == 2

RaceLanguage == "en"
RaceBounds == B1
RacePath == CacheFile(RaceLanguage, RaceBounds)

\* the lists the sessions put; no landmark has an image to download
RaceLists == {<<Island>>, <<Tower, Mall>>, <<Street, Pont>>}

HeadUnit == [unit |-> "head"]
LandmarkUnit(landmark) == [unit |-> "landmark", landmark |-> landmark]
TailUnit(cache_data) ==
    [unit |-> "tail", timestamp |-> cache_data.timestamp,
     bounds |-> cache_data.bounds, language |-> cache_data.language]
\* the zero bytes of a file written past its end
Hole == [unit |-> "hole"]

\* json.dump(cache_data, f): the units the file object is given
Serialise(cache_data) ==
    <<HeadUnit>>
      \o [i \in 1..Len(cache_data.landmarks) |-> LandmarkUnit(cache_data.landmarks[i])]
      \o <<TailUnit(cache_data)>>

\* the units are one JSON document: json.load does not raise
IsDocument(units) ==
    /\ Len(units) >= 2
    /\ units[1] = HeadUnit
    /\ units[Len(units)].unit = "tail"
    /\ \A i \in 2..(Len(units) - 1) : units[i].unit = "landmark"

\* json.load(f) on a file that holds `units`: the record, or no record when
\* json.load raises
json_load(units, t) ==
    IF IsDocument(units)
    THEN [landmarks |-> [i \in 1..(Len(units) - 2) |-> units[i + 1].landmark],
          timestamp |-> units[Len(units)].timestamp,
          bounds |-> units[Len(units)].bounds,
          language |-> units[Len(units)].language]
    ELSE Truncated(t)

\* write(fd, units) of a session whose file offset is `offset`: each session
\* has its own offset, a write past the end of the file leaves a hole
WriteAt(file, offset, units) ==
    LET end == offset + Len(units)
        n == IF Len(file) > end THEN Len(file) ELSE end
    IN  [i \in 1..n |->
            IF i > offset /\ i <= end THEN units[i - offset]
            ELSE IF i <= Len(file) THEN file[i]
            ELSE Hole]

\* the landmarks directory when the file two sessions write holds `file`
DirWith(file) == (RacePath :> json_load(file, now)) @@ landmarks_dir

Other(s) == CHOOSE o \in Sessions : o # s

\* lines 95-111: the key and the loop over the landmarks
BeginPut(s) ==
    \E landmarks \in RaceLists :
      LET loop == CacheLoop(images_dir, landmarks, [i \in 1..Len(landmarks) |-> "404"],
                            now, Len(landmarks))
      IN  /\ sessions[s].pc = "idle"
          /\ sessions' = [sessions EXCEPT ![s] =
                 [@ EXCEPT !.pc = "open", !.landmarks = landmarks,
                           !.cached_landmarks = loop.cached_landmarks]]
          /\ images_dir' = loop.images
          /\ UNCHANGED <<now, landmarks_dir, cache_stats, last, prev, disk_file>>

\* line 114, open(cache_path, 'w'), which truncates the file, and lines
\* 115-120 up to the first write: the dict with time.time() is built and
\* serialised into the buffer
OpenFile(s) ==
    LET cache_data == [landmarks |-> sessions[s].cached_landmarks,
                       timestamp |-> now,
                       bounds |-> RaceBounds,
                       language |-> RaceLanguage]
    IN  /\ sessions[s].pc = "open"
        /\ disk_file' = <<>>
        /\ landmarks_dir' = DirWith(<<>>)
        /\ sessions' = [sessions EXCEPT ![s] =
               [@ EXCEPT !.pc = "dump", !.document = Serialise(cache_data),
                         !.offset = 0,
                         !.raced = sessions[Other(s)].pc = "dump"]]
        /\ UNCHANGED <<now, images_dir, cache_stats, last, prev>>

\* json.dump fills the buffer: the file object writes BufferUnits units
Flush(s) ==
    LET offset == sessions[s].offset
        units == SubSeq(sessions[s].document, offset + 1, offset + BufferUnits)
    IN  /\ sessions[s].pc = "dump"
        /\ Len(sessions[s].document) - offset > BufferUnits
        /\ disk_file' = WriteAt(disk_file, offset, units)
        /\ landmarks_dir' = DirWith(disk_file')
        /\ sessions' = [sessions EXCEPT ![s] = [@ EXCEPT !.offset = offset + BufferUnits]]
        /\ UNCHANGED <<now, images_dir, cache_stats, last, prev>>

\* the end of the with block writes what is left in the buffer and closes
\* the file; lines 122-125 update the statistics of the session
CloseFile(s) ==
    LET offset == sessions[s].offset
        units == SubSeq(sessions[s].document, offset + 1, Len(sessions[s].document))
    IN  /\ sessions[s].pc = "dump"
        /\ Len(sessions[s].document) - offset <= BufferUnits
        /\ disk_file' = WriteAt(disk_file, offset, units)
        /\ landmarks_dir' = DirWith(disk_file')
        /\ sessions' = [sessions EXCEPT ![s] =
               [@ EXCEPT !.pc = "done", !.offset = Len(sessions[s].document),
                         !.cache_stats =
                             UpdateStats(@, landmarks_dir', images_dir, "written", now)]]
        /\ UNCHANGED <<now, images_dir, cache_stats, last, prev>>

\* a get_cached_landmarks for the key, issued at any moment; it reads the
\* file as it is on the disk at that moment
GetDuringPuts ==
    \E got \in GetCached(landmarks_dir, RaceBounds, RaceLanguage, DefaultMaxAgeHours, now) :
      /\ last' = [NoCall EXCEPT !.op = "get_cached_landmarks", !.bounds = RaceBounds,
                                !.language = RaceLanguage,
                                !.max_age_hours = DefaultMaxAgeHours,
                                !.closest_cache = got.closest_cache,
                                !.result = got.result,
                                !.escaped = got.escaped]
      /\ UNCHANGED <<now, landmarks_dir, images_dir, cache_stats, prev, race>>

RaceNext ==
    \/ \E s \in Sessions : BeginPut(s)
    \/ \E s \in Sessions : OpenFile(s)
    \/ \E s \in Sessions : Flush(s)
    \/ \E s \in Sessions : CloseFile(s)
    \/ GetDuringPuts

RaceSpec == Init /\ [][RaceNext]_vars

\* both sessions have ended their cache_landmarks
BothDone == \A s \in Sessions : sessions[s].pc = "done"

\* the record json.load gives of the file session s alone would have written
RecordOf(s) == json_load(sessions[s].document, now)

\* C23 (as claimed): when both sessions have ended, the file holds the
\* complete record of one of the two puts; a get_cached_landmarks during or
\* after the puts returns the whole list of one put or [], and lets no
\* exception go on to its caller.
C23_LastWriterWins ==
    /\ BothDone => \E s \in Sessions : landmarks_dir[RacePath] = RecordOf(s)
    /\ IsGet =>
          /\ ~last.escaped
          /\ \/ last.result = <<>>
             \/ \E s \in Sessions :
                   sessions[s].pc # "idle" /\ last.result = sessions[s].cached_landmarks

\* C23, what holds: no exception goes on to the caller of
\* get_cached_landmarks, every landmark it returns was put by one of the
\* sessions, and when neither session opened the file while the other was
\* writing it, the file holds the complete record of one of the puts.
C23_HoldsWithoutOverlap ==
    /\ (BothDone /\ \A s \in Sessions : ~sessions[s].raced)
          => \E s \in Sessions : landmarks_dir[RacePath] = RecordOf(s)
    /\ IsGet =>
          /\ ~last.escaped
          /\ \A i \in 1..Len(last.result) :
                \E s \in Sessions :
                   \E j \in 1..Len(sessions[s].cached_landmarks) :
                      last.result[i] = sessions[s].cached_landmarks[j]

\* C23, the two outcomes of the race: a file that json.load cannot parse, and
\* a file that parses to a list no session put.
C23_NeverUnreadable ==
    BothDone => IsRecord(landmarks_dir[RacePath])

C23_NeverMixed ==
    (BothDone /\ IsRecord(landmarks_dir[RacePath]))
        => \E s \in Sessions :
              landmarks_dir[RacePath].landmarks = sessions[s].cached_landmarks

====
